---- MODULE Spec2Model ----
(***************************************************************************)
(* Model of lib/ai/providers.ts (src/unnamed/part_000) and                 *)
(* lib/ai/models.ts: the environment-driven construction of                *)
(* customAgentProvider and myProvider at module load.                      *)
(*                                                                         *)
(* process.env is a finite map from variable names to strings; a variable  *)
(* that is not set is absent from the map's domain.  Module evaluation is  *)
(* synchronous, so the whole of part_000 is one step (LoadModule /         *)
(* LoadModuleThrows); the environment may be written before and after it.  *)
(***************************************************************************)
EXTENDS Integers, Sequences, FiniteSets, TLC

(* ------------------------------ bounds --------------------------------- *)

\* number of writes to process.env (set or delete) in one process lifetime
MaxEnvWrites == 3

(* --------------------------- names and inputs -------------------------- *)

NAME      == "CUSTOM_AGENT_PROVIDER_NAME"
API_KEY   == "CUSTOM_AGENT_API_KEY"
BASE_URL  == "CUSTOM_AGENT_BASE_URL"
HEADERS   == "CUSTOM_AGENT_HEADERS"
CHAT      == "CUSTOM_AGENT_CHAT_MODEL"
REASONING == "CUSTOM_AGENT_REASONING_MODEL"
TITLE     == "CUSTOM_AGENT_TITLE_MODEL"
ARTIFACT  == "CUSTOM_AGENT_ARTIFACT_MODEL"

EnvVars == {NAME, API_KEY, BASE_URL, HEADERS, CHAT, REASONING, TITLE, ARTIFACT}

\* strings tried for CUSTOM_AGENT_HEADERS: empty, well-formed and malformed
HeaderInputs ==
  { "",
    "{}",
    "{\"X-Custom-Header\": \"value\"}",
    "{\"X-Custom\": {\"a\": null}, \"X-Custom\": \"value\"}",
    "null",
    "{\"X-Custom-Header\": ",
    "{\"X-Custom-Header\": \"value\",}",
    "X-Custom-Header: value" }

\* strings tried for every other variable: empty, or a value of its own
EnvInputs(v) ==
  CASE v = HEADERS   -> HeaderInputs
    [] v = NAME      -> {"", "my-agent"}
    [] v = API_KEY   -> {"", "sk-live"}
    [] v = BASE_URL  -> {"", "https://agent.example/v1"}
    [] v = CHAT      -> {"", "my-chat"}
    [] v = REASONING -> {"", "my-reasoning"}
    [] v = TITLE     -> {"", "my-title"}
    [] v = ARTIFACT  -> {"", "gpt-4o"}

(* ------------------------------ JSON.parse ----------------------------- *)

\* lexical structure of the header strings (string literals lose their quotes,
\* a bare word that is no JSON literal is the illegal token "?")
Lex(s) ==
  CASE s = "" -> << >>
    [] s = "{}" -> <<"{", "}">>
    [] s = "{\"X-Custom-Header\": \"value\"}" ->
         <<"{", "X-Custom-Header", ":", "value", "}">>
    [] s = "{\"X-Custom\": {\"a\": null}, \"X-Custom\": \"value\"}" ->
         <<"{", "X-Custom", ":", "{", "a", ":", "null", "}", ",",
           "X-Custom", ":", "value", "}">>
    [] s = "null" -> <<"null">>
    [] s = "{\"X-Custom-Header\": " -> <<"{", "X-Custom-Header", ":">>
    [] s = "{\"X-Custom-Header\": \"value\",}" ->
         <<"{", "X-Custom-Header", ":", "value", ",", "}">>
    [] OTHER -> <<"?">>

Punct == {"{", "}", ":", ",", "?"}

EmptyMap == [k \in {} |-> ""]

\* JSON values, all of one shape
JNull      == [type |-> "null",   str |-> "", members |-> EmptyMap]
JString(s) == [type |-> "string", str |-> s,  members |-> EmptyMap]
JObject(m) == [type |-> "object", str |-> "", members |-> m]

ParseError == [ok |-> FALSE, val |-> JNull, next |-> 0]

\* m with key k bound to x (a repeated key keeps the last value)
Put(m, k, x) ==
  [j \in (DOMAIN m) \cup {k} |-> IF j = k THEN x ELSE m[j]]

RECURSIVE ParseValue(_, _), ParseMembers(_, _, _)

\* the members of an object from token i on, after "{" or ","
ParseMembers(t, i, acc) ==
  IF i + 1 > Len(t) \/ t[i] \in Punct \/ t[i] = "null" \/ t[i + 1] # ":"
  THEN ParseError
  ELSE LET r == ParseValue(t, i + 2) IN
       IF ~r.ok \/ r.next > Len(t) THEN ParseError
       ELSE IF t[r.next] = "}"
            THEN [ok |-> TRUE, val |-> JObject(Put(acc, t[i], r.val)),
                  next |-> r.next + 1]
       ELSE IF t[r.next] = ","
            THEN ParseMembers(t, r.next + 1, Put(acc, t[i], r.val))
       ELSE ParseError

\* one JSON value starting at token i
ParseValue(t, i) ==
  IF i > Len(t) THEN ParseError
  ELSE IF t[i] = "null" THEN [ok |-> TRUE, val |-> JNull, next |-> i + 1]
  ELSE IF t[i] = "{"
       THEN IF i + 1 <= Len(t) /\ t[i + 1] = "}"
            THEN [ok |-> TRUE, val |-> JObject(EmptyMap), next |-> i + 2]
            ELSE ParseMembers(t, i + 1, EmptyMap)
  ELSE IF t[i] \in Punct THEN ParseError
  ELSE [ok |-> TRUE, val |-> JString(t[i]), next |-> i + 1]

\* JSON.parse(s): ok = FALSE stands for the SyntaxError it throws
JSONParse(s) ==
  LET t == Lex(s)
      r == ParseValue(t, 1)
  IN  IF r.ok /\ r.next = Len(t) + 1
      THEN [ok |-> TRUE, val |-> r.val]
      ELSE [ok |-> FALSE, val |-> JNull]

(* ------------------------------ models.ts ------------------------------ *)

DEFAULT_CHAT_MODEL == "chat-model"

\* variant: the reasoning entry offered under an id the provider does not map
chatModelsRenamed ==
  << [id |-> "chat-model", name |-> "Chat model"],
     [id |-> "reasoning-model", name |-> "Reasoning model"] >>

\* chatModels, as the sequence of its entries
chatModels ==
  << [id |-> "chat-model", name |-> "Chat model"],
     [id |-> "chat-model-reasoning", name |-> "Reasoning model"] >>

(* ----------------------------- providers.ts ---------------------------- *)

\* the value of a binding that has not been initialised
Undefined == [kind |-> "undefined"]

\* JavaScript truthiness of process.env[v]: set, and not the empty string
Truthy(e, v) == v \in DOMAIN e /\ e[v] # ""

\* variant: process.env[v] ?? d, which keeps an empty string
OrDefaultNullish(e, v, d) == IF v \in DOMAIN e THEN e[v] ELSE d

\* process.env[v] || d
OrDefault(e, v, d) == IF Truthy(e, v) THEN e[v] ELSE d

\* variant: the headers are parsed whenever the variable is set, empty or not
HeadersThrowWhenSet(e) == HEADERS \in DOMAIN e /\ ~JSONParse(e[HEADERS]).ok

\* does the headers expression of customAgentProvider throw
HeadersThrow(e) == Truthy(e, HEADERS) /\ ~JSONParse(e[HEADERS]).ok

\* process.env.CUSTOM_AGENT_HEADERS ? JSON.parse(...) : {}
HeadersOf(e) ==
  IF Truthy(e, HEADERS) THEN JSONParse(e[HEADERS]).val ELSE JObject(EmptyMap)

\* variant: the base URL default without the /v1 path
ProviderSettingsNoPath(e) ==
  [ kind    |-> "openai-compatible",
    name    |-> IF Truthy(e, NAME) THEN e[NAME] ELSE "custom-agent",
    apiKey  |-> IF Truthy(e, API_KEY) THEN e[API_KEY] ELSE "dummy-key",
    baseURL |-> IF Truthy(e, BASE_URL) THEN e[BASE_URL] ELSE "http://localhost:8000",
    headers |-> IF Truthy(e, HEADERS) THEN JSONParse(e[HEADERS]).val
                ELSE JObject(EmptyMap) ]

\* the settings createOpenAICompatible is called with
ProviderSettings(e) ==
  [ kind    |-> "openai-compatible",
    name    |-> OrDefault(e, NAME, "custom-agent"),
    apiKey  |-> OrDefault(e, API_KEY, "dummy-key"),
    baseURL |-> OrDefault(e, BASE_URL, "http://localhost:8000/v1"),
    headers |-> HeadersOf(e) ]

\* customAgentProvider(modelId): a chat model of provider p
RemoteModel(p, modelId) ==
  [kind |-> "remote", id |-> modelId, provider |-> p, middleware |-> << >>]

\* extractReasoningMiddleware({ tagName })
extractReasoningMiddleware(tagName) ==
  [type |-> "extract-reasoning", tagName |-> tagName]

\* wrapLanguageModel({ model, middleware })
wrapLanguageModel(model, middleware) ==
  [model EXCEPT !.middleware = <<middleware>> \o @]

\* a test double imported from ./models.test
TestDouble(name) ==
  [kind |-> "test", id |-> name, provider |-> Undefined, middleware |-> << >>]

chatModel      == TestDouble("chatModel")
reasoningModel == TestDouble("reasoningModel")
titleModel     == TestDouble("titleModel")
artifactModel  == TestDouble("artifactModel")

\* the object literal handed to customProvider in the test branch
TestLanguageModels ==
  [r \in {"chat-model", "chat-model-reasoning", "title-model", "artifact-model"} |->
     CASE r = "chat-model"           -> chatModel
       [] r = "chat-model-reasoning" -> reasoningModel
       [] r = "title-model"          -> titleModel
       [] r = "artifact-model"       -> artifactModel]

\* variant: reasoning extraction applied to every role served by the
\* reasoning role's backend model
ProdLanguageModelsWrapByBackend(p, e) ==
  LET reasoningId == IF Truthy(e, REASONING) THEN e[REASONING] ELSE "gpt-4o"
      idOf(r) == CASE r = "chat-model" ->
                        IF Truthy(e, CHAT) THEN e[CHAT] ELSE "gpt-4o-mini"
                   [] r = "chat-model-reasoning" -> reasoningId
                   [] r = "title-model" ->
                        IF Truthy(e, TITLE) THEN e[TITLE] ELSE "gpt-3.5-turbo"
                   [] r = "artifact-model" ->
                        IF Truthy(e, ARTIFACT) THEN e[ARTIFACT] ELSE "gpt-4o"
  IN [r \in {"chat-model", "chat-model-reasoning", "title-model", "artifact-model"} |->
        IF idOf(r) = reasoningId
        THEN [kind |-> "remote", id |-> idOf(r), provider |-> p,
              middleware |-> << [type |-> "extract-reasoning", tagName |-> "think"] >>]
        ELSE [kind |-> "remote", id |-> idOf(r), provider |-> p,
              middleware |-> << >>]]

\* the object literal handed to customProvider in the production branch
ProdLanguageModels(p, e) ==
  [r \in {"chat-model", "chat-model-reasoning", "title-model", "artifact-model"} |->
     CASE r = "chat-model" ->
            RemoteModel(p, OrDefault(e, CHAT, "gpt-4o-mini"))
       [] r = "chat-model-reasoning" ->
            wrapLanguageModel(RemoteModel(p, OrDefault(e, REASONING, "gpt-4o")),
                              extractReasoningMiddleware("think"))
       [] r = "title-model" ->
            RemoteModel(p, OrDefault(e, TITLE, "gpt-3.5-turbo"))
       [] r = "artifact-model" ->
            RemoteModel(p, OrDefault(e, ARTIFACT, "gpt-4o"))]

\* variant: the commented-out image model registered as well
customProviderWithImages(languageModels) ==
  [ kind           |-> "custom",
    languageModels |-> languageModels,
    imageModels    |-> [k \in {"small-model"} |-> "dall-e-3"] ]

\* customProvider({ languageModels }): no imageModels are passed
customProvider(languageModels) ==
  [ kind           |-> "custom",
    languageModels |-> languageModels,
    imageModels    |-> EmptyMap ]

\* variant: the two branches of the conditional exchanged
MyProviderOfSwapped(isTest, p, e) ==
  IF isTest
  THEN [kind |-> "custom", languageModels |-> ProdLanguageModels(p, e),
        imageModels |-> EmptyMap]
  ELSE [kind |-> "custom", languageModels |-> TestLanguageModels,
        imageModels |-> EmptyMap]

\* variant: the test branch lets a configured chat model replace its double
MyProviderOfTestOverride(isTest, p, e) ==
  IF isTest
  THEN [kind |-> "custom",
        languageModels |->
          [r \in DOMAIN TestLanguageModels |->
             IF r = "chat-model" /\ Truthy(e, CHAT)
             THEN RemoteModel(p, e[CHAT]) ELSE TestLanguageModels[r]],
        imageModels |-> EmptyMap]
  ELSE [kind |-> "custom", languageModels |-> ProdLanguageModels(p, e),
        imageModels |-> EmptyMap]

\* the initialiser of myProvider
MyProviderOf(isTest, p, e) ==
  IF isTest THEN customProvider(TestLanguageModels)
            ELSE customProvider(ProdLanguageModels(p, e))

(* -------------------------------- state -------------------------------- *)

VARIABLES
  env,                  \* process.env restricted to the CUSTOM_AGENT_* names
  isTestEnvironment,    \* the binding imported from ../constants
  pc,                   \* "init", "loaded" or "failed" (module evaluation)
  customAgentProvider,  \* the module constant, Undefined until initialised
  myProvider,           \* the exported constant, Undefined until initialised
  loadEnv,              \* history: process.env as it was when the module ran
  writes                \* number of writes to process.env so far

vars == <<env, isTestEnvironment, pc, customAgentProvider, myProvider,
          loadEnv, writes>>

Init ==
  /\ env = EmptyMap
  /\ isTestEnvironment \in BOOLEAN
  /\ pc = "init"
  /\ customAgentProvider = Undefined
  /\ myProvider = Undefined
  /\ loadEnv = EmptyMap
  /\ writes = 0

\* process.env[v] = val, by the launcher before load or by any code after it
SetEnv(v, val) ==
  /\ writes < MaxEnvWrites
  /\ env' = [j \in (DOMAIN env) \cup {v} |-> IF j = v THEN val ELSE env[j]]
  /\ writes' = writes + 1
  /\ UNCHANGED <<isTestEnvironment, pc, customAgentProvider, myProvider, loadEnv>>

\* delete process.env[v]
DeleteEnv(v) ==
  /\ writes < MaxEnvWrites
  /\ v \in DOMAIN env
  /\ env' = [j \in (DOMAIN env) \ {v} |-> env[j]]
  /\ writes' = writes + 1
  /\ UNCHANGED <<isTestEnvironment, pc, customAgentProvider, myProvider, loadEnv>>

\* variant: the module body evaluated again on a later import
LoadModuleAgain ==
  /\ pc \in {"init", "loaded"}
  /\ ~(Truthy(env, HEADERS) /\ ~JSONParse(env[HEADERS]).ok)
  /\ customAgentProvider' = ProviderSettings(env)
  /\ myProvider' = MyProviderOf(isTestEnvironment, customAgentProvider', env)
  /\ loadEnv' = env
  /\ pc' = "loaded"
  /\ UNCHANGED <<env, isTestEnvironment, writes>>

\* evaluation of the module body when JSON.parse does not throw
LoadModule ==
  /\ pc = "init"
  /\ ~HeadersThrow(env)
  /\ customAgentProvider' = ProviderSettings(env)
  /\ myProvider' = MyProviderOf(isTestEnvironment, customAgentProvider', env)
  /\ loadEnv' = env
  /\ pc' = "loaded"
  /\ UNCHANGED <<env, isTestEnvironment, writes>>

\* evaluation of the module body when JSON.parse throws: neither constant is
\* initialised and the import fails
LoadModuleThrows ==
  /\ pc = "init"
  /\ HeadersThrow(env)
  /\ loadEnv' = env
  /\ pc' = "failed"
  /\ UNCHANGED <<env, isTestEnvironment, customAgentProvider, myProvider, writes>>

Next ==
  \/ \E v \in EnvVars : \E val \in EnvInputs(v) : SetEnv(v, val)
  \/ \E v \in EnvVars : DeleteEnv(v)
  \/ LoadModule
  \/ LoadModuleThrows

Spec == Init /\ [][Next]_vars

(* ------------------------------- claims -------------------------------- *)

Roles == {"chat-model", "chat-model-reasoning", "title-model", "artifact-model"}

Loaded     == pc = "loaded"
Production == pc = "loaded" /\ ~isTestEnvironment
TestMode   == pc = "loaded" /\ isTestEnvironment

\* was the variable set to a non-empty string when the module ran
SetAtLoad(v) == v \in DOMAIN loadEnv /\ loadEnv[v] # ""

\* C1: after load, in the test environment every role is bound to its test
\* double, and outside it every role is bound to a remote model created by the
\* custom agent provider; never the other way round.
C1_ProviderByEnvironment ==
  Loaded =>
    IF isTestEnvironment
    THEN /\ myProvider.languageModels["chat-model"] = chatModel
         /\ myProvider.languageModels["chat-model-reasoning"] = reasoningModel
         /\ myProvider.languageModels["title-model"] = titleModel
         /\ myProvider.languageModels["artifact-model"] = artifactModel
    ELSE \A r \in Roles :
           /\ myProvider.languageModels[r].kind = "remote"
           /\ myProvider.languageModels[r].provider = customAgentProvider

\* C1 witness: a test-mode load although a remote chat model was configured
C1_Witness == TestMode /\ SetAtLoad(CHAT)

\* the environment variable and the documented default of each role
RoleVar(r) ==
  CASE r = "chat-model"           -> CHAT
    [] r = "chat-model-reasoning" -> REASONING
    [] r = "title-model"          -> TITLE
    [] r = "artifact-model"       -> ARTIFACT

DocumentedDefault(r) ==
  CASE r = "chat-model"           -> "gpt-4o-mini"
    [] r = "chat-model-reasoning" -> "gpt-4o"
    [] r = "title-model"          -> "gpt-3.5-turbo"
    [] r = "artifact-model"       -> "gpt-4o"

\* C2: in production each role's backend identifier is the value of its own
\* variable when that is set and non-empty, and its documented default
\* otherwise, whatever the other roles' variables are.
C2_ModelIdFromOwnVariable ==
  Production =>
    \A r \in Roles :
      myProvider.languageModels[r].id =
        IF SetAtLoad(RoleVar(r)) THEN loadEnv[RoleVar(r)] ELSE DocumentedDefault(r)

\* C2 witness: one role's variable set, another's set to the empty string
C2_Witness ==
  /\ Production
  /\ SetAtLoad(CHAT)
  /\ TITLE \in DOMAIN loadEnv /\ loadEnv[TITLE] = ""

\* C3: whenever load succeeds the language-model mapping has exactly the four
\* role keys and no image model is registered.
C3_ExactlyFourRoles ==
  Loaded =>
    /\ DOMAIN myProvider.languageModels = Roles
    /\ DOMAIN myProvider.imageModels = {}

\* C3 witness: a production load with a parsed, non-empty headers object
C3_Witness ==
  /\ Production
  /\ customAgentProvider.headers.type = "object"
  /\ DOMAIN customAgentProvider.headers.members # {}

\* which of the header strings are JSON texts, and what they denote
MalformedHeaderInputs ==
  { "{\"X-Custom-Header\": ",
    "{\"X-Custom-Header\": \"value\",}",
    "X-Custom-Header: value" }

ExpectedHeaders(s) ==
  CASE s = "{}" -> JObject(EmptyMap)
    [] s = "{\"X-Custom-Header\": \"value\"}" ->
         JObject([k \in {"X-Custom-Header"} |-> JString("value")])
    [] s = "{\"X-Custom\": {\"a\": null}, \"X-Custom\": \"value\"}" ->
         JObject([k \in {"X-Custom"} |-> JString("value")])
    [] s = "null" -> JNull

\* C4: load fails exactly when CUSTOM_AGENT_HEADERS is a non-empty string that
\* is not JSON, in test mode as in production, and then no provider exists;
\* unset or empty gives the empty headers map, valid JSON gives its value.
C4_FailsIffMalformedHeaders ==
  /\ pc = "failed" =>
       /\ SetAtLoad(HEADERS) /\ loadEnv[HEADERS] \in MalformedHeaderInputs
       /\ myProvider = Undefined
       /\ customAgentProvider = Undefined
  /\ Loaded =>
       IF SetAtLoad(HEADERS)
       THEN /\ loadEnv[HEADERS] \notin MalformedHeaderInputs
            /\ customAgentProvider.headers = ExpectedHeaders(loadEnv[HEADERS])
       ELSE customAgentProvider.headers = JObject(EmptyMap)

\* C4 witness: a failed load in the test environment
C4_Witness == pc = "failed" /\ isTestEnvironment

\* C5: a production provider is only obtained when CUSTOM_AGENT_API_KEY and
\* CUSTOM_AGENT_BASE_URL are both set to non-empty strings.
C5_RequiredConfiguration ==
  Production => SetAtLoad(API_KEY) /\ SetAtLoad(BASE_URL)

\* C6: in production the reasoning role alone carries middleware, the
\* reasoning extraction with tag "think"; the other roles carry none, also
\* when they name the same backend model as the reasoning role.
C6_OnlyReasoningWrapped ==
  Production =>
    \A r \in Roles :
      myProvider.languageModels[r].middleware =
        IF r = "chat-model-reasoning"
        THEN << [type |-> "extract-reasoning", tagName |-> "think"] >>
        ELSE << >>

\* C6 witness: artifact role explicitly given the reasoning role's backend
C6_Witness ==
  /\ Production
  /\ SetAtLoad(ARTIFACT)
  /\ myProvider.languageModels["artifact-model"].id =
       myProvider.languageModels["chat-model-reasoning"].id

\* C7: once the module has loaded, no step (in particular no write to the
\* environment) changes customAgentProvider or myProvider.
C7_ReadOnceAtLoad ==
  [][Loaded => /\ pc' = "loaded"
               /\ myProvider' = myProvider
               /\ customAgentProvider' = customAgentProvider]_vars

\* C7 witness: the environment differs from the one the module was loaded in
C7_Witness ==
  /\ Production
  /\ env # loadEnv
  /\ \E r \in Roles : OrDefault(env, RoleVar(r), DocumentedDefault(r))
                        # myProvider.languageModels[r].id

\* C8: the default chat model is one of chatModels, and every id of chatModels
\* is a key of the provider's language models whenever load succeeds.
C8_OfferedModelsResolve ==
  /\ \E i \in DOMAIN chatModels : chatModels[i].id = DEFAULT_CHAT_MODEL
  /\ Loaded =>
       \A i \in DOMAIN chatModels :
         chatModels[i].id \in DOMAIN myProvider.languageModels

\* C8 witness: a load, in either mode, with a provider name configured
C8_Witness == Loaded /\ SetAtLoad(NAME)

\* C9: in test mode the mapping is the same four test doubles whatever the
\* environment held at load, and none of them carries provider settings.
C9_TestModeIgnoresEnvironment ==
  TestMode =>
    /\ myProvider.languageModels = TestLanguageModels
    /\ \A r \in Roles : myProvider.languageModels[r].provider = Undefined

\* C9 witness: test mode with credentials and an endpoint configured
C9_Witness == TestMode /\ SetAtLoad(API_KEY) /\ SetAtLoad(BASE_URL)

====
